---- MODULE Spec2Model ----
(***************************************************************************)
(* function_explorer of streamlit_extras: one render of the form for a     *)
(* function (signature reading, widget selection with recall from          *)
(* st.session_state, invocation, write-back), re-run on every interaction. *)
(*                                                                         *)
(* Python values are one-field records named by their type, so that values *)
(* of different types are different: [int |-> 12], [str |-> "a"], ...      *)
(* A float n.0 is [float |-> n].                                           *)
(***************************************************************************)
EXTENDS Integers, Sequences, FiniteSets, TLC

VARIABLES
    session,   \* st.session_state: key -> record (a function on the keys present)
    writer,    \* history: key -> the function whose render last wrote the record
    last       \* the run that has just rendered: its arguments, its locals, the
               \* store it started from (NoRender between runs)

vars == <<session, writer, last>>

----------------------------------------------------------------------------
(* Values *)

IntV(n) == [int |-> n]
FloatV(n) == [float |-> n]
StrV(s) == [str |-> s]
BoolV(b) == [bool |-> b]
TableV(s) == [table |-> s]

\* inspect.Parameter.empty: no annotation, no default
Empty == [empty |-> TRUE]

\* Python's None (get_arg_from_session_state falls off its end)
None == [none |-> TRUE]

\* a raised exception, as the result of evaluating an expression
Raise(e) == [raise |-> e]

IsRaise(v) == "raise" \in DOMAIN v

is_empty(argument_attribute) == argument_attribute = Empty

URL == StrV("http://placekitten.com/120/120")

\* pd.DataFrame(["abcde"])
Placeholder == TableV("abcde")

----------------------------------------------------------------------------
(* Type hints.  kind "class" is a plain class (int, str, list, DataFrame);  *)
(* "literal" is typing.Literal[...] (args are its options); "union" is a   *)
(* typing.Union / typing.Optional alias, the type of Union[int, float];    *)
(* "object" is an annotation that is an object without a __name__ (a tuple *)
(* of types, the value None, an annotation left as a string).              *)

Class(n) == [kind |-> "class", name |-> n, args |-> <<>>]
Literal(options) == [kind |-> "literal", name |-> "Literal", args |-> options]
UnionOf(args) == [kind |-> "union", name |-> "Union", args |-> args]
Object(repr) == [kind |-> "object", name |-> "", args |-> <<repr>>]

int == Class("int")
float == Class("float")
str == Class("str")
bool == Class("bool")
DataFrame == Class("DataFrame")
list == Class("list")
NoneType == Class("NoneType")

\* typing.Optional[t] is Union[t, None]
OptionalOf(t) == UnionOf(<<t, NoneType>>)

\* isinstance(type_hint, UnionType), UnionType = type(Union[int, float])
IsUnionType(type_hint) ==
    /\ ~is_empty(type_hint)
    /\ type_hint.kind = "union"

\* unions are left as they are
NormalizeNoneSecond_Never(type_hint) == type_hint

\* lines 75-79: a union whose second argument is None becomes its first
NormalizeNoneSecond(type_hint) ==
    IF /\ IsUnionType(type_hint)
       /\ Len(type_hint.args) = 2
       /\ type_hint.args[2] = NoneType
    THEN type_hint.args[1]
    ELSE type_hint

\* every annotation passes for a named one
HasName_Always(type_hint) == TRUE

\* hasattr(type_hint, "__name__")
HasName(type_hint) == type_hint.kind # "object"

\* type_hint.__name__: typing names a two-armed union with None "Optional"
TypeName(type_hint) ==
    IF type_hint.kind = "union"
    THEN IF /\ Len(type_hint.args) = 2
            /\ \E i \in 1..2 : type_hint.args[i] = NoneType
         THEN "Optional"
         ELSE "Union"
    ELSE type_hint.name

\* str(type_hint).startswith("typing.Literal")
IsLiteral(type_hint) == type_hint.kind = "literal"

\* argument.endswith(suffix)
endswith(s, suffix) ==
    /\ Len(s) >= Len(suffix)
    /\ SubSeq(s, Len(s) - Len(suffix) + 1, Len(s)) = suffix

----------------------------------------------------------------------------
(* Truth value and `or` *)

\* bool(v): "raise" for a DataFrame, whose truth value is ambiguous
Truth(v) ==
    CASE "table" \in DOMAIN v -> "raise"
      [] "none" \in DOMAIN v -> "false"
      [] "int" \in DOMAIN v -> IF v.int = 0 THEN "false" ELSE "true"
      [] "float" \in DOMAIN v -> IF v.float = 0 THEN "false" ELSE "true"
      [] "str" \in DOMAIN v -> IF v.str = "" THEN "false" ELSE "true"
      [] "bool" \in DOMAIN v -> IF v.bool THEN "true" ELSE "false"
      [] "list" \in DOMAIN v -> IF v.list = "[]" THEN "false" ELSE "true"
      [] OTHER -> "true"

\* a or b, with b evaluated only when a is falsy
PyOr(a, b) ==
    IF IsRaise(a) THEN a
    ELSE CASE Truth(a) = "raise" -> Raise("ValueError")
           [] Truth(a) = "true" -> a
           [] OTHER -> b

\* lines 40-43
get_arg_from_session_state(state, func_name, argument) ==
    IF func_name \in DOMAIN state
    THEN IF "inputs" \in DOMAIN state[func_name]
         THEN IF argument \in DOMAIN state[func_name]["inputs"]
              THEN state[func_name]["inputs"][argument]
              ELSE Raise("KeyError")
         ELSE None
    ELSE None

----------------------------------------------------------------------------
(* The effective default of each branch of the dispatch (lines 81-139).    *)
(* `default` is the declared default, or the caller's override when one    *)
(* is given (lines 72-73).                                                 *)

\* a falsy declared default is taken for a missing one
RecallOrDefault_Truthy(state, func_name, argument, default, fallback) ==
    IF ~is_empty(default) /\ Truth(default) = "true"
    THEN PyOr(get_arg_from_session_state(state, func_name, argument), default)
    ELSE fallback

\* "recalled or default if not is_empty(default) else fallback": Python reads
\* it as (recalled or default) if ... else fallback, and evaluates the
\* condition first
RecallOrDefault(state, func_name, argument, default, fallback) ==
    IF ~is_empty(default)
    THEN PyOr(get_arg_from_session_state(state, func_name, argument), default)
    ELSE fallback

\* lines 82-86
UntypedDefault(state, func_name, argument, default) ==
    RecallOrDefault(state, func_name, argument, default, StrV("Sample string"))

\* lines 94-96: recalled or (default if not is_empty(default) else 12)
IntDefault(state, func_name, argument, default) ==
    PyOr(get_arg_from_session_state(state, func_name, argument),
         IF ~is_empty(default) THEN default ELSE IntV(12))

\* lines 99-103
FloatDefault(state, func_name, argument, default) ==
    RecallOrDefault(state, func_name, argument, default, FloatV(12))

\* lines 107-111
ColorDefault(state, func_name, argument, default) ==
    RecallOrDefault(state, func_name, argument, default, StrV("#000000"))

\* lines 114-118
StrDefault(state, func_name, argument, default) ==
    RecallOrDefault(state, func_name, argument, default, StrV("Sample string"))

\* lines 121-125
BoolDefault(state, func_name, argument, default) ==
    RecallOrDefault(state, func_name, argument, default, BoolV(TRUE))

\* lines 128-130: recalled or pd.DataFrame(["abcde"])
TableValue(state, func_name, argument) ==
    PyOr(get_arg_from_session_state(state, func_name, argument), Placeholder)

\* lines 132-137
LiteralDefault(state, func_name, argument, default, options) ==
    RecallOrDefault(state, func_name, argument, default, options[1])

\* a value that is no option counts as the first option
Index_OrFirst(options, default) ==
    IF \E i \in 1..Len(options) : options[i] = default
    THEN CHOOSE i \in 1..Len(options) : options[i] = default
    ELSE 1

\* options.index(default), line 138: 0 when default is not an option
Index(options, default) ==
    IF \E i \in 1..Len(options) : options[i] = default
    THEN CHOOSE i \in 1..Len(options) :
             /\ options[i] = default
             /\ \A j \in 1..(i - 1) : options[j] # default
    ELSE 0

\* which branch of lines 81-141 a (normalized) type hint takes
Branch(type_hint, argument) ==
    CASE is_empty(type_hint) -> "text_input"
      [] ~is_empty(type_hint) /\ ~HasName(type_hint) -> "raise"
      [] type_hint = int -> "number_input_step"
      [] type_hint = float -> "number_input"
      [] type_hint = str /\ endswith(argument, "_color") -> "color_picker"
      [] type_hint = str /\ ~endswith(argument, "_color") -> "st_keyup"
      [] type_hint = bool -> "checkbox"
      [] type_hint = DataFrame -> "session_only"
      [] OTHER -> IF IsLiteral(type_hint) THEN "selectbox" ELSE "warning"

\* the branches that call a widget
Widgets ==
    {"text_input", "number_input_step", "number_input", "color_picker",
     "st_keyup", "checkbox", "selectbox"}

\* lines 70, 89-90
Label(argument, declared, type_hint) ==
    LET label == IF ~is_empty(declared) THEN argument ELSE argument \o "*"
    IN  IF is_empty(type_hint) \/ ~HasName(type_hint)
        THEN label
        ELSE label \o " (" \o TypeName(type_hint) \o ")"

\* the override is not looked at
Overridden_Ignored(default_arguments, argument, declared) == declared

\* lines 72-73: default_arguments is a mapping (None and {} are both <<>>)
Overridden(default_arguments, argument, declared) ==
    IF argument \in DOMAIN default_arguments
    THEN default_arguments[argument]
    ELSE declared

\* the expression each branch assigns to default (or to inputs[argument]
\* for a DataFrame); None for the branches that compute nothing
EffectiveDefault(state, func_name, argument, type_hint, default) ==
    LET b == Branch(type_hint, argument)
    IN  CASE b = "text_input" -> UntypedDefault(state, func_name, argument, default)
          [] b = "number_input_step" -> IntDefault(state, func_name, argument, default)
          [] b = "number_input" -> FloatDefault(state, func_name, argument, default)
          [] b = "color_picker" -> ColorDefault(state, func_name, argument, default)
          [] b = "st_keyup" -> StrDefault(state, func_name, argument, default)
          [] b = "checkbox" -> BoolDefault(state, func_name, argument, default)
          [] b = "session_only" -> TableValue(state, func_name, argument)
          [] b = "selectbox" ->
                LiteralDefault(state, func_name, argument, default, type_hint.args)
          [] OTHER -> None

----------------------------------------------------------------------------
(* Functions and their signatures *)

\* the dataclass of lines 17-21
Argument(argument, type_hint, default) ==
    [argument |-> argument, type_hint |-> type_hint, default |-> default]

\* a function: its __name__ and its parameters in declared order
Function(name, parameters) == [name |-> name, parameters |-> parameters]

\* lines 24-33: one Argument per parameter of the signature, in order
get_arg_details(func) == func.parameters

\* lines 151-154
foo ==
    Function("foo", << Argument("age", int, Empty),
                       Argument("name", str, Empty),
                       Argument("image_url", str, URL) >>)

----------------------------------------------------------------------------
(* What the user enters.  A widget returns the value it is given unless the *)
(* user has set another; choice 0 leaves every widget of the render alone,  *)
(* choice u >= 1 sets each to the u-th value of its kind (the first being   *)
(* the falsy one where the widget can return one).                          *)

NumUserChoices == 1

Pick(values, u) == values[((u - 1) % Len(values)) + 1]

UserValue(widget, options, u) ==
    CASE widget \in {"text_input", "st_keyup"} -> StrV(Pick(<<"", "Bob">>, u))
      [] widget = "number_input_step" -> IntV(u - 1)
      [] widget = "number_input" -> FloatV(u - 1)
      [] widget = "color_picker" -> StrV(Pick(<<"#ff0000", "#00ff00">>, u))
      [] widget = "checkbox" -> BoolV(u % 2 = 0)
      [] widget = "selectbox" -> Pick(options, u + 1)

\* the value a widget call returns: value=default (index=idx) until the user
\* sets another.  The widgets belong to the framework: they are taken to
\* accept whatever default they are handed.
WidgetReturn(widget, default, options, u) ==
    IF u = 0 THEN default ELSE UserValue(widget, options, u)

----------------------------------------------------------------------------
(* One render: lines 56-147 *)

\* the state of the loop of lines 65-141 (exc is "" while nothing is raised)
LoopStart ==
    [inputs |-> <<>>, default |-> <<>>, widget |-> <<>>, label |-> <<>>,
     warned |-> {}, exc |-> "", at |-> 0]

\* the body of the loop for one argument (lines 66-141)
LoopBody(state, func_name, argument_info, default_arguments, u, i, acc) ==
    LET argument == argument_info.argument
        type_hint == NormalizeNoneSecond(argument_info.type_hint)
        default == Overridden(default_arguments, argument, argument_info.default)
        label == Label(argument, argument_info.default, type_hint)
        b == Branch(type_hint, argument)
        d == EffectiveDefault(state, func_name, argument, type_hint, default)
        options == IF b = "selectbox" THEN type_hint.args ELSE <<>>
        labelled == [acc EXCEPT !.label = (argument :> label) @@ acc.label]
    IN  CASE b = "raise" ->
                [acc EXCEPT !.exc = "Exception", !.at = i]
          [] b = "warning" ->
                [labelled EXCEPT !.warned = acc.warned \cup {argument}]
          [] b \notin {"raise", "warning"} /\ IsRaise(d) ->
                [labelled EXCEPT !.exc = d.raise, !.at = i]
          [] b = "session_only" /\ ~IsRaise(d) ->
                [labelled EXCEPT !.inputs = (argument :> d) @@ acc.inputs]
          [] b = "selectbox" /\ ~IsRaise(d) /\ Index(options, d) = 0 ->
                [labelled EXCEPT !.default = (argument :> d) @@ acc.default,
                                 !.exc = "ValueError", !.at = i]
          [] OTHER ->
                [labelled EXCEPT
                    !.default = (argument :> d) @@ acc.default,
                    !.widget = (argument :> b) @@ acc.widget,
                    !.inputs =
                        (argument :> WidgetReturn(b, d, options, u)) @@ acc.inputs]

RECURSIVE Loop(_, _, _, _, _, _, _)
Loop(state, func_name, args, default_arguments, u, i, acc) ==
    IF i > Len(args) \/ acc.exc # ""
    THEN acc
    ELSE Loop(state, func_name, args, default_arguments, u, i + 1,
              LoopBody(state, func_name, args[i], default_arguments, u, i, acc))

\* func(**inputs), line 144: a parameter without a default that got no value
\* is a TypeError of the call; otherwise the body may raise
Invoke(func, inputs, fails) ==
    IF \E i \in 1..Len(func.parameters) :
          /\ is_empty(func.parameters[i].default)
          /\ func.parameters[i].argument \notin DOMAIN inputs
    THEN "TypeError"
    ELSE IF fails THEN "RuntimeError" ELSE ""

\* the new inputs are merged into the remembered ones
Remember_Merged(state, func_name, inputs) ==
    LET created == IF func_name \notin DOMAIN state
                   THEN (func_name :> ("inputs" :> <<>>)) @@ state
                   ELSE state
    IN  [created EXCEPT ![func_name] =
            ("inputs" :> (inputs @@ created[func_name]["inputs"]))
                @@ created[func_name]]

\* lines 145-147
Remember(state, func_name, inputs) ==
    LET created == IF func_name \notin DOMAIN state
                   THEN (func_name :> <<>>) @@ state
                   ELSE state
    IN  [created EXCEPT ![func_name] = ("inputs" :> inputs) @@ created[func_name]]

\* the record is written whether or not the function returned
SessionAfter_Always(state, func_name, inputs, exc) ==
    Remember(state, func_name, inputs)

\* lines 144-147: the record is written only when func(**inputs) returned
SessionAfter(state, func_name, inputs, exc) ==
    IF exc = "" THEN Remember(state, func_name, inputs) ELSE state

NoRender ==
    [rendered |-> FALSE, func |-> Function("", <<>>), default_arguments |-> <<>>,
     u |-> 0, before |-> <<>>, again |-> FALSE,
     inputs |-> <<>>, default |-> <<>>, widget |-> <<>>, label |-> <<>>,
     warned |-> {}, exc |-> "", at |-> 0, invoked |-> FALSE]

\* lines 46-147, in a fresh run of the script
function_explorer(func, default_arguments, u, fails) ==
    LET args == get_arg_details(func)
        acc == Loop(session, func.name, args, default_arguments, u, 1, LoopStart)
        invoked == acc.exc = ""
        exc == IF invoked THEN Invoke(func, acc.inputs, fails) ELSE acc.exc
    IN  /\ last = NoRender
        /\ session' = SessionAfter(session, func.name, acc.inputs, exc)
        /\ writer' = IF exc = "" THEN (func.name :> func) @@ writer ELSE writer
        /\ last' = [rendered |-> TRUE, func |-> func,
                    default_arguments |-> default_arguments, u |-> u,
                    before |-> session,
                    again |-> (func.name \in DOMAIN writer /\ writer[func.name] = func),
                    inputs |-> acc.inputs, default |-> acc.default,
                    widget |-> acc.widget, label |-> acc.label,
                    warned |-> acc.warned, exc |-> exc, at |-> acc.at,
                    invoked |-> invoked]

\* lines 150-156
example(u, fails) == function_explorer(foo, <<>>, u, fails)

\* the run is over: its locals (args, inputs, default, label) are gone, only
\* st.session_state survives until the next interaction re-runs the script
rerun ==
    /\ last # NoRender
    /\ last' = NoRender
    /\ UNCHANGED <<session, writer>>

----------------------------------------------------------------------------
(* The functions explored, the overrides passed and the runs *)

\* at most this many arguments are overridden in one call
MaxOverrides == 1

ListV == [list |-> "[]"]

a == StrV("a")
b == StrV("b")
c == StrV("c")

\* the type hints of the explored parameters
Hints ==
    {Empty, int, float, str, bool, DataFrame, Literal(<<a, b>>),
     OptionalOf(int), UnionOf(<<NoneType, int>>), Object("(int, str)")}

\* the class whose values a parameter of this hint takes
ValueClass(type_hint) ==
    CASE is_empty(type_hint) -> str
      [] type_hint.kind = "literal" -> type_hint
      [] type_hint.kind = "class" -> type_hint
      [] type_hint.kind = "object" -> list
      [] OTHER -> IF type_hint.args[1] = NoneType
                  THEN type_hint.args[2]
                  ELSE type_hint.args[1]

\* declared defaults: none, a falsy one, a truthy one (for a Literal an
\* option, and a value that is no option)
DeclaredDefaults(type_hint) ==
    LET t == ValueClass(type_hint)
    IN  CASE is_empty(type_hint) -> {Empty, StrV("hello")}
          [] type_hint.kind = "union" /\ type_hint.args[2] # NoneType -> {Empty, IntV(3)}
          [] t = int -> {Empty, IntV(0), IntV(3)}
          [] t = float -> {Empty, FloatV(0), FloatV(3)}
          [] t = str -> {Empty, StrV(""), StrV("hello")}
          [] t = bool -> {Empty, BoolV(FALSE), BoolV(TRUE)}
          [] t = DataFrame -> {Empty}
          [] t = list -> {Empty, ListV}
          [] OTHER -> {Empty, b, c}

\* the values a caller overrides with
OverrideValues(type_hint) ==
    LET t == ValueClass(type_hint)
    IN  CASE t = int -> {IntV(5)}
          [] t = float -> {FloatV(5)}
          [] t = str -> {StrV("#ffffff")}
          [] t = bool -> {BoolV(TRUE)}
          [] t = DataFrame -> {TableV("other")}
          [] t = list -> {ListV}
          [] OTHER -> {a, c}

\* f(x: hint [= default]) for every hint and declared default
OneParameter ==
    UNION {{Function("f", <<Argument("x", t, d)>>) : d \in DeclaredDefaults(t)} :
              t \in Hints}

\* f(bg_color: str [= default])
ColorParameter ==
    {Function("f", <<Argument("bg_color", str, d)>>) : d \in DeclaredDefaults(str)}

\* f(x: int, items: list [= []], bg_color: str = "#123456"): an unsupported
\* parameter between two supported ones
ListParameter ==
    {Function("f", << Argument("x", int, Empty),
                      Argument("items", list, d),
                      Argument("bg_color", str, StrV("#123456")) >>) :
        d \in DeclaredDefaults(list)}

\* the functions a caller explores besides the example's foo; all are called
\* f, as the successive definitions of one function (or several lambdas) are
Functions == OneParameter \cup ColorParameter \cup ListParameter

ArgumentNames(func) ==
    {func.parameters[i].argument : i \in 1..Len(func.parameters)}

Parameter(func, argument) ==
    func.parameters[CHOOSE i \in 1..Len(func.parameters) :
                        func.parameters[i].argument = argument]

\* the default_arguments a caller passes: None, or values for at most
\* MaxOverrides of the function's arguments
DefaultArguments(func) ==
    UNION {{m \in [S -> UNION {OverrideValues(t) : t \in Hints}] :
               \A k \in S : m[k] \in OverrideValues(Parameter(func, k).type_hint)} :
           S \in {T \in SUBSET ArgumentNames(func) : Cardinality(T) <= MaxOverrides}}

Init ==
    /\ session = <<>>
    /\ writer = <<>>
    /\ last = NoRender

Next ==
    \/ \E func \in Functions, u \in 0..NumUserChoices, fails \in BOOLEAN :
          \E default_arguments \in DefaultArguments(func) :
              function_explorer(func, default_arguments, u, fails)
    \/ \E u \in 0..NumUserChoices, fails \in BOOLEAN : example(u, fails)
    \/ rerun

Spec == Init /\ [][Next]_vars

----------------------------------------------------------------------------
(* The render that `last` describes *)

Name == last.func.name
Parameters == last.func.parameters

\* the InputValues remembered under the function's name when the run began
RecordBefore ==
    IF Name \in DOMAIN last.before /\ "inputs" \in DOMAIN last.before[Name]
    THEN last.before[Name]["inputs"]
    ELSE <<>>

\* the loop got to the i-th parameter
Reached(i) == last.at = 0 \/ i <= last.at

FalsyValues == {IntV(0), FloatV(0), StrV(""), BoolV(FALSE)}

\* a value that Python's `or` keeps is remembered for argument k
RememberedTruthy(k) ==
    /\ k \in DOMAIN RecordBefore
    /\ RecordBefore[k] \notin FalsyValues

\* the arguments that were overridden and whose widget was called
OverriddenWidgets == DOMAIN last.default_arguments \cap DOMAIN last.widget

----------------------------------------------------------------------------
(* C1 *)

\* C1 as stated: whenever the caller overrides argument x, the default handed
\* to x's widget is the override, whatever is declared or remembered.
C1_OverrideWins ==
    last.rendered =>
        \A k \in OverriddenWidgets : last.default[k] = last.default_arguments[k]

\* C1 amended: an override replaces the declared default, but a remembered
\* truthy value comes first: the default handed to x's widget is the value
\* remembered for x when that is truthy, and the override otherwise.
C1_RememberedThenOverride ==
    last.rendered =>
        \A k \in OverriddenWidgets :
            last.default[k] = IF RememberedTruthy(k)
                              THEN RecordBefore[k]
                              ELSE last.default_arguments[k]

\* an overridden widget gets the remembered value, which is not the override
C1_Witness ==
    /\ last.rendered
    /\ \E k \in OverriddenWidgets :
          /\ RememberedTruthy(k)
          /\ RecordBefore[k] # last.default_arguments[k]
          /\ last.default[k] = RecordBefore[k]

----------------------------------------------------------------------------
(* C2 *)

\* what the render computed for argument k: the default handed to its widget,
\* or the value itself where no widget is called
Effective(k) ==
    CASE k \in DOMAIN last.default -> last.default[k]
      [] k \notin DOMAIN last.default /\ k \in DOMAIN last.inputs -> last.inputs[k]
      [] OTHER -> None

\* C2: when the record under f's name was written by the last successful
\* render of f, a render of f without overrides computes, for every recorded
\* argument, the recorded value.
C2_SecondRenderReproduces ==
    (last.rendered /\ last.again /\ last.default_arguments = <<>>) =>
        \A k \in DOMAIN RecordBefore : Effective(k) = RecordBefore[k]

----------------------------------------------------------------------------
(* C3 *)

Hint(i) == Parameters[i].type_hint
Arg(i) == Parameters[i].argument

\* a declared type with no row in the dispatch table
OutsideDispatchTable(h) ==
    /\ ~is_empty(h)
    /\ \/ h.kind = "class" /\ h \notin {int, float, str, bool, DataFrame}
       \/ h.kind = "object"
       \/ /\ h.kind = "union"
          /\ ~(Len(h.args) = 2 /\ NoneType \in {h.args[1], h.args[2]})

\* the call of the function fails for a missing argument exactly when a
\* parameter without a default got no value
MissingArgumentOnly ==
    last.invoked =>
        (last.exc = "TypeError" <=>
            \E j \in 1..Len(Parameters) :
                is_empty(Parameters[j].default) /\ Arg(j) \notin DOMAIN last.inputs)

\* the i-th parameter is skipped with a warning, every other supported
\* parameter gets its value and the function is called
SkippedWithWarning(i) ==
    /\ last.at # i
    /\ Arg(i) \in last.warned
    /\ Arg(i) \notin DOMAIN last.inputs
    /\ last.at = 0 =>
          /\ \A j \in 1..Len(Parameters) :
                ~OutsideDispatchTable(Hint(j)) => Arg(j) \in DOMAIN last.inputs
          /\ last.invoked
    /\ MissingArgumentOnly

\* C3 as stated: a declared type outside the dispatch table never aborts the
\* render: warning, argument left out, the others rendered, function called.
C3_UnsupportedNeverAborts ==
    last.rendered =>
        \A i \in 1..Len(Parameters) :
            (OutsideDispatchTable(Hint(i)) /\ Reached(i)) => SkippedWithWarning(i)

\* C3 amended: that holds for the unsupported types that have a __name__; an
\* annotation without one aborts the render with an exception at that
\* parameter: the function is not called and the session is left as it was.
C3_NamedUnsupportedSkipped ==
    last.rendered =>
        \A i \in 1..Len(Parameters) :
            (OutsideDispatchTable(Hint(i)) /\ Reached(i)) =>
                IF Hint(i).kind # "object"
                THEN SkippedWithWarning(i)
                ELSE /\ last.at = i
                     /\ last.exc = "Exception"
                     /\ ~last.invoked
                     /\ Arg(i) \notin DOMAIN last.inputs
                     /\ session = last.before

\* a required list parameter is skipped with a warning between two rendered
\* widgets, and the call fails for the missing argument
C3_Witness ==
    /\ last.rendered
    /\ \E i \in 1..Len(Parameters) :
          /\ Hint(i) = list
          /\ is_empty(Parameters[i].default)
          /\ Arg(i) \in last.warned
          /\ i > 1 /\ Arg(i - 1) \in DOMAIN last.widget
          /\ i < Len(Parameters) /\ Arg(i + 1) \in DOMAIN last.widget
          /\ last.invoked
          /\ last.exc = "TypeError"

----------------------------------------------------------------------------
(* C4 *)

\* C4: on the first render of a function and on every later render of it, a
\* DataFrame parameter gets the table remembered for it when there is one,
\* the placeholder when nothing is remembered, and the render goes on.
C4_TableFromSession ==
    (last.rendered /\ (Name \notin DOMAIN last.before \/ last.again)) =>
        \A i \in 1..Len(Parameters) :
            (Hint(i) = DataFrame /\ Reached(i)) =>
                /\ last.at # i
                /\ Arg(i) \notin DOMAIN last.widget
                /\ Arg(i) \in DOMAIN last.inputs
                /\ (Arg(i) \in DOMAIN RecordBefore /\ "table" \in DOMAIN RecordBefore[Arg(i)])
                      => last.inputs[Arg(i)] = RecordBefore[Arg(i)]
                /\ RecordBefore = <<>> => last.inputs[Arg(i)] = Placeholder

----------------------------------------------------------------------------
(* C5 *)

\* C5: after a render in which the function returned, the "inputs" entry of
\* the record under the function's name is exactly the InputValues passed to
\* it: same keys, same values, nothing kept from the record before.
C5_RecordIsInputs ==
    (last.rendered /\ last.exc = "") =>
        /\ Name \in DOMAIN session
        /\ "inputs" \in DOMAIN session[Name]
        /\ session[Name]["inputs"] = last.inputs

\* the function returned, and the record before held an argument that the
\* new InputValues do not
C5_Witness ==
    /\ last.rendered
    /\ last.exc = ""
    /\ \E k \in DOMAIN RecordBefore : k \notin DOMAIN last.inputs
    /\ DOMAIN last.inputs # {}

----------------------------------------------------------------------------
(* C6 *)

\* the fallback defaults of section 4.2's table
TableFallback(h, k) ==
    CASE h = int -> IntV(12)
      [] h = float -> FloatV(12)
      [] h = bool -> BoolV(TRUE)
      [] h = str /\ endswith(k, "_color") -> StrV("#000000")
      [] h = str /\ ~endswith(k, "_color") -> StrV("Sample string")

FirstRenderNoOverrides ==
    /\ last.rendered
    /\ Name \notin DOMAIN last.before
    /\ last.default_arguments = <<>>

\* C6: on a first render without overrides every int, float, str or bool
\* parameter gets its declared default when it has one (falsy ones included)
\* and the fallback of its type otherwise; the example's foo gets
\* {age: 12, name: "Sample string", image_url: URL}.
C6_FirstRenderDefaults ==
    FirstRenderNoOverrides =>
        /\ \A i \in 1..Len(Parameters) :
              Hint(i) \in {int, float, str, bool} =>
                  /\ Arg(i) \in DOMAIN last.default
                  /\ last.default[Arg(i)] =
                        IF ~is_empty(Parameters[i].default)
                        THEN Parameters[i].default
                        ELSE TableFallback(Hint(i), Arg(i))
        /\ last.func = foo =>
              /\ last.default = [age |-> IntV(12), name |-> StrV("Sample string"),
                                 image_url |-> URL]
              /\ last.u = 0 => last.inputs = last.default

\* a first render hands a falsy declared default to a widget
C6_Witness ==
    /\ FirstRenderNoOverrides
    /\ \E i \in 1..Len(Parameters) :
          /\ Hint(i) \in {float, str, bool}
          /\ Parameters[i].default \in FalsyValues
          /\ last.default[Arg(i)] = Parameters[i].default

----------------------------------------------------------------------------
(* C7 *)

\* the default computed for the i-th parameter, a Literal, is none of its options
NotAnOption(i) ==
    /\ ~is_empty(Hint(i))
    /\ Hint(i).kind = "literal"
    /\ Arg(i) \in DOMAIN last.default
    /\ \A n \in 1..Len(Hint(i).args) : Hint(i).args[n] # last.default[Arg(i)]

\* C7: when the default of a Literal parameter is none of its options the
\* render fails there with the lookup's error: no selector, the function is
\* not called and the session is left as it was.
C7_BadOptionPropagates ==
    last.rendered =>
        \A i \in 1..Len(Parameters) :
            NotAnOption(i) =>
                /\ last.at = i
                /\ last.exc = "ValueError"
                /\ Arg(i) \notin DOMAIN last.widget
                /\ Arg(i) \notin DOMAIN last.inputs
                /\ ~last.invoked
                /\ session = last.before

\* a remembered value that is no option fails a later render
C7_Witness ==
    /\ last.rendered
    /\ \E i \in 1..Len(Parameters) :
          /\ NotAnOption(i)
          /\ RememberedTruthy(Arg(i))
          /\ last.default[Arg(i)] = RecordBefore[Arg(i)]
          /\ last.exc = "ValueError"

----------------------------------------------------------------------------
(* C8 *)

\* a union of two arms, one of them None
TwoArmedOptional(h) ==
    /\ ~is_empty(h)
    /\ h.kind = "union"
    /\ Len(h.args) = 2
    /\ NoneType \in {h.args[1], h.args[2]}
    /\ h.args[1] # h.args[2]

\* its arm that is not None
Arm(h) == IF h.args[1] = NoneType THEN h.args[2] ELSE h.args[1]

\* the render did for every argument what the render of the same function
\* with the i-th annotation replaced by h does from the same session, with
\* the same overrides and the same user
RendersAs(i, h) ==
    LET plain == [Parameters EXCEPT ![i].type_hint = h]
        acc == Loop(last.before, Name, plain, last.default_arguments, last.u,
                    1, LoopStart)
    IN  /\ acc.widget = last.widget
        /\ acc.label = last.label
        /\ acc.default = last.default
        /\ acc.inputs = last.inputs
        /\ acc.warned = last.warned
        /\ acc.at = last.at
        /\ (acc.exc = "") = last.invoked

\* C8 as stated: a parameter annotated with T together with None is treated
\* as one annotated with T: same widget, label and default.
C8_OptionalIsPlain ==
    last.rendered =>
        \A i \in 1..Len(Parameters) :
            TwoArmedOptional(Hint(i)) => RendersAs(i, Arm(Hint(i)))

\* C8 amended: that holds when None is the second arm (the form Optional[T]
\* builds); with None as the first arm the annotation is left a union, which
\* has no row in the dispatch table: a warning, and no widget.
C8_NoneSecondIsPlain ==
    last.rendered =>
        \A i \in 1..Len(Parameters) :
            TwoArmedOptional(Hint(i)) =>
                IF Hint(i).args[2] = NoneType
                THEN RendersAs(i, Arm(Hint(i)))
                ELSE Reached(i) =>
                        /\ Arg(i) \in last.warned
                        /\ Arg(i) \notin DOMAIN last.widget
                        /\ Arg(i) \notin DOMAIN last.inputs

\* an Optional[int] parameter with an override and a remembered value gets
\* the stepper of an int parameter, labelled (int)
C8_Witness ==
    /\ last.rendered
    /\ \E i \in 1..Len(Parameters) :
          /\ Hint(i) = OptionalOf(int)
          /\ Arg(i) \in DOMAIN last.default_arguments
          /\ RememberedTruthy(Arg(i))
          /\ last.widget[Arg(i)] = "number_input_step"
          /\ last.label[Arg(i)] = Arg(i) \o " (int)"

----------------------------------------------------------------------------
(* C9 *)

\* C9: when the called function fails, every key of the session store is as
\* it was when the render began.
C9_FailureLeavesSession ==
    (last.rendered /\ last.invoked /\ last.exc # "") => session = last.before

\* the function failed on InputValues other than the remembered ones, with
\* records under two names in the store
C9_Witness ==
    /\ last.rendered
    /\ last.invoked
    /\ last.exc = "RuntimeError"
    /\ Name \in DOMAIN last.before
    /\ last.inputs # RecordBefore
    /\ Cardinality(DOMAIN session) = 2
    /\ session[Name]["inputs"] = RecordBefore

----------------------------------------------------------------------------
(* C10 *)

\* C10: reading a remembered argument never fails: no render ends with the
\* lookup's KeyError.
C10_RecallNeverFails ==
    last.rendered => last.exc # "KeyError"

====
